---- MODULE Spec2Model ----
(***************************************************************************)
(* Speaker verification of suaraNormal: the similarity scorer and the      *)
(* threshold decision (server and interactive tool), the server's          *)
(* verifySpeaker / POST /process_audio with concurrent requests, the model *)
(* loading at startup, the handler's pipeline after the verification with  *)
(* the two GET routes, the interactive tool's main with its recording      *)
(* timer, and the page's enrollment and main recording.                    *)
(*                                                                         *)
(* Numbers are exact: a JavaScript number is an integer here, NaN and the  *)
(* infinities are tagged values, and a similarity dot / (|A| * |B|) is     *)
(* kept as the triple (dot, |A|^2, |B|^2) so that comparing it with a      *)
(* threshold needs no square root.                                         *)
(***************************************************************************)
EXTENDS Integers, Sequences, FiniteSets, TLC

\* ------------------------------------------------------------------ bounds
\* Longest voiceprint drawn for the scorer, and the largest component.
MaxDim == 2
MaxVal == 1

\* Requests POST /process_audio handles in one run of the server.
MaxReq == 2

\* MediaRecorders the enrollment button creates in one run of the page.
MaxRec == 2

\* Longest answer typed at the tool's "Durasi (detik): " prompt.
MaxInputLen == 2

\* Seconds by which the recording ffmpeg may close after the requested
\* duration has run out (device start-up, flushing the file).
MaxLate == 2

\* ------------------------------------------------------- program constants
\* THRESHOLD of the server and of the interactive tool, in hundredths.
THRESHOLD == 69
TOOL_THRESHOLD == 70

VARIABLES
    \* --- the similarity scorer applied to a drawn pair of voiceprints
    vecA, vecB,         \* the two voiceprints
    scorerPc,           \* "input" | "scored" | "decided"
    similarity,         \* the scorer's result (a JavaScript number)
    serverAccepts,      \* verifySpeaker's return value for that similarity
    toolIsMe,           \* the tool's isMe for that similarity
    \* --- the server process
    loadPc,             \* app.listen / loadVerificationModel: where it stands
    verifierProcessor,  \* "undefined" | "loaded"
    verifierModel,      \* "undefined" | "loaded"
    assigns,            \* how often each of the two was assigned
    enrollmentFile,     \* audio_saya.mp3: "none" or the audio it holds
    enrollWavExists,    \* uploads/enrollment.wav is on disk
    enrollWavWriters,   \* the calls whose ffmpeg is still writing that file
    call,               \* per request: the handler's and verifySpeaker's state
    latest_summary_audio_path,       \* 0 (null) or the request it was made for
    latest_transcription_audio_path, \* the same
    \* --- the browser's enrollment recording (script.js)
    mediaStream,        \* "null" | "active"
    pendingInit,        \* enroll clicks waiting for getUserMedia
    isEnrolling,
    enrollmentRecorder, \* 0 (undefined) or the MediaRecorder it refers to
    recorders,          \* per MediaRecorder: its state and what it recorded
    enrollmentAudioChunks, \* the recorders whose data the array holds, in order
    enrollmentStatus,   \* enrollmentStatus.textContent
    stopOnInactive,     \* stop() was called on a recorder not recording
    uploads,            \* POST /enroll_voice in flight: the recordings
    lastEnroll,         \* the last upload answered: its recording and status
    \* --- the browser's main recording (script.js)
    isRecording,
    mediaRecorder,      \* 0 (undefined) or the MediaRecorder it refers to
    mainRecorders,      \* per MediaRecorder: its state, its uploads
    audioChunks,        \* the recorders whose data the array holds, in order
    pendingRecordInit,  \* record clicks waiting for getUserMedia
    recordStopOnInactive, \* stop() was called on a recorder not recording
    processUploads,     \* POST /process_audio in flight
    recordingStatus,    \* recordingStatus.textContent
    \* --- the interactive tool (verify.js main)
    toolPc,             \* where main stands
    toolEnrollmentFile, \* audio_saya.mp3 beside the tool: "none" or its audio
    totalDuration,      \* getAudioDuration's result, in seconds
    toolEnrollWav,      \* enrollment.wav: "absent" | "partial" | "complete"
    toolVerifyWav,      \* verification.wav: the same
    durasiRekam,        \* the recording's duration
    toolSimilarity,     \* cosineSimilarity's result
    isMe,               \* the tool's decision
    confidence,         \* "Tingkat Keyakinan": the confidence level printed
    interpretasi,       \* "Interpretasi Skor": the line printed
    elapsed,            \* recordAudio: the timer's tick count
    bars, empty,        \* printProgress: the two bar widths it last computed
    intervalOn,         \* recordAudio's setInterval timer is running
    exitCode,           \* -1 while running, then the process's exit code
    rlClosed            \* rl.close() has run

scorerVars == <<vecA, vecB, scorerPc, similarity, serverAccepts, toolIsMe>>

serverVars == <<loadPc, verifierProcessor, verifierModel, assigns,
                enrollmentFile, enrollWavExists, enrollWavWriters, call,
                latest_summary_audio_path, latest_transcription_audio_path>>

browserVars == <<mediaStream, pendingInit, isEnrolling, enrollmentRecorder,
                 recorders, enrollmentAudioChunks, enrollmentStatus,
                 stopOnInactive, uploads, lastEnroll,
                 isRecording, mediaRecorder, mainRecorders, audioChunks,
                 pendingRecordInit, recordStopOnInactive, processUploads,
                 recordingStatus>>

\* the main recording's part of the page
mainRecVars == <<isRecording, mediaRecorder, mainRecorders, audioChunks,
                 pendingRecordInit, recordStopOnInactive, processUploads,
                 recordingStatus>>

\* the enrollment's part of the page
enrollVars == <<pendingInit, isEnrolling, enrollmentRecorder, recorders,
                enrollmentAudioChunks, enrollmentStatus, stopOnInactive,
                uploads, lastEnroll>>

toolVars == <<toolPc, toolEnrollmentFile, totalDuration, toolEnrollWav,
              toolVerifyWav, durasiRekam, toolSimilarity, isMe, confidence,
              interpretasi, elapsed, bars, empty, intervalOn, exitCode,
              rlClosed>>

vars == <<scorerVars, serverVars, browserVars, toolVars>>

latestPaths == <<latest_summary_audio_path, latest_transcription_audio_path>>

\* ------------------------------------------------- JavaScript numbers
\* A finite number dot / (sqrt(aa) * sqrt(bb)), NaN, or an infinity.
Num(d, a, b) == [kind |-> "num", dot |-> d, aa |-> a, bb |-> b]
NaN == [kind |-> "NaN", dot |-> 0, aa |-> 0, bb |-> 0]
Infinity(s) == [kind |-> "inf", dot |-> s, aa |-> 0, bb |-> 0]
Unset == [kind |-> "unset", dot |-> 0, aa |-> 0, bb |-> 0]

RECURSIVE SumProd(_, _, _)
\* sum over i < n of vecA[i] * vecB[i]  (n <= both lengths)
SumProd(a, b, n) == IF n = 0 THEN 0 ELSE SumProd(a, b, n - 1) + a[n] * b[n]

RECURSIVE SumSq(_, _)
\* vec.reduce((sum, a) => sum + a * a, 0)
SumSq(v, n) == IF n = 0 THEN 0 ELSE SumSq(v, n - 1) + v[n] * v[n]

\* vecA.reduce((sum, a, i) => sum + a * vecB[i], 0): the reduce runs over
\* vecA's indices; vecB[i] past vecB's end is undefined and a * undefined is
\* NaN, which every later addition keeps.
dotProduct(a, b) ==
    IF Len(a) > Len(b) THEN [nan |-> TRUE, v |-> 0]
    ELSE [nan |-> FALSE, v |-> SumProd(a, b, Len(a))]

\* dotProduct / (magnitudeA * magnitudeB) in IEEE arithmetic: NaN stays NaN,
\* 0 / 0 is NaN, x / 0 is an infinity of x's sign.
divide(dp, aa, bb) ==
    IF dp.nan THEN NaN
    ELSE IF aa * bb = 0
         THEN IF dp.v = 0 THEN NaN
              ELSE Infinity(IF dp.v > 0 THEN 1 ELSE -1)
         ELSE Num(dp.v, aa, bb)

cosineSimilarity(a, b) ==
    divide(dotProduct(a, b), SumSq(a, Len(a)), SumSq(b, Len(b)))

\* similarity >= t / 100: the comparison a slip of > into >= would make.
GreaterOrEqual(s, t) ==
    CASE s.kind = "num" -> s.dot > 0 /\ 10000 * s.dot * s.dot >= t * t * s.aa * s.bb
      [] s.kind = "inf" -> s.dot > 0
      [] OTHER -> FALSE

\* similarity > t / 100 for a threshold t > 0 in hundredths: false for NaN.
GreaterThan(s, t) ==
    CASE s.kind = "num" -> s.dot > 0 /\ 10000 * s.dot * s.dot > t * t * s.aa * s.bb
      [] s.kind = "inf" -> s.dot > 0
      [] OTHER -> FALSE

\* The server's comparison with > slipped to >=.
ServerDecisionGe(s) == GreaterOrEqual(s, THRESHOLD)

\* return similarity > THRESHOLD  (server)
ServerDecision(s) == GreaterThan(s, THRESHOLD)

\* const isMe = similarity > THRESHOLD  (interactive tool)
ToolDecision(s) == GreaterThan(s, TOOL_THRESHOLD)

\* let confidence: if (similarity > 0.75) ... else if (> 0.65) ... else if
\* (> 0.55) ... else ...
Confidence(s) ==
    IF GreaterThan(s, 75) THEN "SANGAT TINGGI"
    ELSE IF GreaterThan(s, 65) THEN "TINGGI"
    ELSE IF GreaterThan(s, 55) THEN "SEDANG"
    ELSE "RENDAH"

\* "Interpretasi Skor": if (similarity > 0.80) ... > 0.70 ... > 0.60 ...
\* > 0.50 ... else ...
Interpretasi(s) ==
    IF GreaterThan(s, 80) THEN "Hampir pasti orang yang sama"
    ELSE IF GreaterThan(s, 70) THEN "Kemungkinan besar orang yang sama"
    ELSE IF GreaterThan(s, 60) THEN "Ada kemiripan, tapi tidak konklusif"
    ELSE IF GreaterThan(s, 50) THEN "Kemiripan rendah"
    ELSE "Kemungkinan besar orang yang berbeda"

\* ------------------------------------------------------------ the server
Calls == 1..MaxReq

Recorders == 1..MaxRec

\* What a request's audio_file holds, by what the pipeline makes of it:
\* the enrolled speaker, another speaker, a file ffmpeg cannot decode, a
\* recording too short for the model, and one whose voiceprint is all zero.
Probes == {"same", "other", "corrupt", "short", "silent"}

\* What the browser may record for enrollment.
EnrollAudios == {"R", "R2"}

\* The requests drawn: without a file, not personalized, personalized.
Requests ==
    {[file |-> "none", sel |-> "standard"], [file |-> "same", sel |-> "standard"]}
        \cup {[file |-> p, sel |-> "personalized"] : p \in Probes}

\* What wav.decode makes of a file another ffmpeg is still rewriting, when
\* it decodes at all: the samples written so far.
Truncated(a) == "R_trunc"

\* The embedding model, a fixed function of the waveform: the voiceprint of
\* each recording.
Embedding(a) ==
    CASE a = "R" -> <<3, 4>>
      [] a = "R2" -> <<4, 3>>
      [] a = "R_trunc" -> <<0, 1>>
      [] a = "same" -> <<4, 3>>
      [] a = "other" -> <<4, -3>>
      [] OTHER -> <<0, 0>>

\* The length in seconds of each probe recording drawn. Nothing in
\* verifySpeaker reads it: conversion has no duration filter and extraction
\* no length test.
ProbeSeconds(a) ==
    CASE a = "same" -> 2
      [] a = "other" -> 5
      [] a = "silent" -> 4
      [] OTHER -> 0

\* ffmpeg(...).save(...) emits 'error' for a missing or undecodable input.
FfmpegFails(a) == a \in {"none", "corrupt"}

\* verifierProcessor / verifierModel throw on a buffer too short.
InferenceFails(a) == a = "short"

\* The routes part_000 registers on `app`.
Routes ==
    { <<"POST", "/process_audio">>, <<"GET", "/get_response_audio">>,
      <<"GET", "/get_transcription_audio">> }

\* Express answers a request no route matches with 404; a handler's own
\* status is 0 here.
RouteStatus(method, path) == IF <<method, path>> \in Routes THEN 0 ELSE 404

NewCall ==
    [pc |-> "idle", file |-> "none", sel |-> "standard",
     convE |-> "none", convV |-> "none", verifyWav |-> "absent",
     unlinkE |-> "none", unlinkV |-> "none",
     readE |-> "none", readV |-> "none", tempUnlinks |-> 0,
     guardPassed |-> FALSE, invoked |-> FALSE, invokedLoaded |-> FALSE,
     nConv |-> 0, nExtract |-> 0, nScore |-> 0,
     nVerify |-> 0, nTranscribe |-> 0, nSummarize |-> 0, nSpeak |-> 0,
     responses |-> 0, gotSummary |-> 0, gotTranscription |-> 0,
     outcome |-> "none", error |-> "none", score |-> Unset, status |-> 0]

\* The other parts at rest.
ScorerIdle ==
    /\ vecA = <<>> /\ vecB = <<>> /\ scorerPc = "off"
    /\ similarity = Unset /\ serverAccepts = FALSE /\ toolIsMe = FALSE

BrowserIdle ==
    /\ mediaStream = "null"
    /\ pendingInit = 0
    /\ isEnrolling = FALSE
    /\ enrollmentRecorder = 0
    /\ recorders = [r \in Recorders |-> [state |-> "unused", audio |-> "none"]]
    /\ enrollmentAudioChunks = <<>>
    /\ enrollmentStatus = ""
    /\ stopOnInactive = FALSE
    /\ uploads = {}
    /\ lastEnroll = [audio |-> "none", status |-> 0]
    /\ isRecording = FALSE
    /\ mediaRecorder = 0
    /\ mainRecorders = [r \in Recorders |->
                          [state |-> "unused", uploads |-> 0, sent |-> <<>>]]
    /\ audioChunks = <<>>
    /\ pendingRecordInit = 0
    /\ recordStopOnInactive = FALSE
    /\ processUploads = {}
    /\ recordingStatus = ""

ToolIdle ==
    /\ toolPc = "off"
    /\ toolEnrollmentFile = "none"
    /\ totalDuration = 0
    /\ toolEnrollWav = "absent"
    /\ toolVerifyWav = "absent"
    /\ durasiRekam = 0
    /\ toolSimilarity = Unset
    /\ isMe = FALSE
    /\ confidence = ""
    /\ interpretasi = ""
    /\ elapsed = 0
    /\ bars = 0
    /\ empty = 20
    /\ intervalOn = FALSE
    /\ exitCode = -1
    /\ rlClosed = FALSE

\* The server's variables before the process has done anything.
ServerIdle ==
    /\ loadPc = "init"
    /\ verifierProcessor = "undefined"
    /\ verifierModel = "undefined"
    /\ assigns = [processor |-> 0, model |-> 0]
    /\ enrollmentFile = "none"
    /\ enrollWavExists = FALSE
    /\ enrollWavWriters = {}
    /\ call = [c \in Calls |-> NewCall]
    /\ latest_summary_audio_path = 0
    /\ latest_transcription_audio_path = 0

\* After the module has run: app.listen was called, its callback is pending;
\* audio_saya.mp3 is there or not.
InitServer ==
    /\ loadPc = "init"
    /\ verifierProcessor = "undefined"
    /\ verifierModel = "undefined"
    /\ assigns = [processor |-> 0, model |-> 0]
    /\ enrollmentFile \in {"none", "R"}
    /\ enrollWavExists = FALSE
    /\ enrollWavWriters = {}
    /\ call = [c \in Calls |-> NewCall]
    /\ latest_summary_audio_path = 0
    /\ latest_transcription_audio_path = 0
    /\ ScorerIdle /\ BrowserIdle /\ ToolIdle

Running == loadPc \notin {"init", "exited"}

\* --- app.listen's callback and loadVerificationModel
ListenCallback ==
    /\ loadPc = "init"
    /\ loadPc' = "loadingProcessor"
    /\ UNCHANGED <<verifierProcessor, verifierModel, assigns, enrollmentFile,
                   enrollWavExists, enrollWavWriters, call, latestPaths,
                   scorerVars, browserVars, toolVars>>

\* verifierProcessor = await AutoProcessor.from_pretrained(...)
ProcessorLoaded ==
    /\ loadPc = "loadingProcessor"
    /\ verifierProcessor' = "loaded"
    /\ assigns' = [assigns EXCEPT !.processor = @ + 1]
    /\ loadPc' = "loadingModel"
    /\ UNCHANGED <<verifierModel, enrollmentFile, enrollWavExists,
                   enrollWavWriters, call, latestPaths, scorerVars, browserVars,
                   toolVars>>

\* verifierModel = await WavLMForXVector.from_pretrained(...)
ModelLoaded ==
    /\ loadPc = "loadingModel"
    /\ verifierModel' = "loaded"
    /\ assigns' = [assigns EXCEPT !.model = @ + 1]
    /\ loadPc' = "loaded"
    /\ UNCHANGED <<verifierProcessor, enrollmentFile, enrollWavExists,
                   enrollWavWriters, call, latestPaths, scorerVars, browserVars,
                   toolVars>>

\* catch (error) { ...; process.exit(1) }
LoadFailed ==
    /\ loadPc \in {"loadingProcessor", "loadingModel"}
    /\ loadPc' = "exited"
    /\ UNCHANGED <<verifierProcessor, verifierModel, assigns, enrollmentFile,
                   enrollWavExists, enrollWavWriters, call, latestPaths,
                   scorerVars, browserVars, toolVars>>

\* --- verifySpeaker and the POST /process_audio handler
Rest == <<loadPc, verifierProcessor, verifierModel, assigns, enrollmentFile,
          latestPaths, scorerVars, browserVars, toolVars>>

\* verifySpeaker without its guard.
ModelGuardOff == FALSE

\* if (!verifierModel): the guard that refuses a verification
ModelGuard == verifierModel = "undefined"

\* finally { fs.unlink(enrollmentWav, ...); fs.unlink(verificationWav, ...) }
Finally(rec) == [rec EXCEPT !.unlinkE = "pending", !.unlinkV = "pending"]

\* The handler with the return dropped from its 403 branch: it answers 403
\* and goes on to the transcription.
HandlerAfterVerifyNoReturn(rec, outcome, err) ==
    [rec EXCEPT !.outcome = outcome, !.error = err,
                !.status = CASE outcome = "reject" -> 403
                             [] outcome = "error" -> 500
                             [] OTHER -> 0,
                !.responses = IF outcome = "accept" THEN @ ELSE @ + 1,
                !.tempUnlinks = IF outcome = "error" THEN @ + 1 ELSE @,
                !.nTranscribe = IF outcome = "error" THEN @ ELSE @ + 1,
                !.pc = IF outcome = "error" THEN "done" ELSE "transcribing"]

\* The handler once verifySpeaker has settled: false answers 403, a throw
\* answers 500 (both then request the upload's deletion, counted in
\* tempUnlinks), true goes on to groq.audio.transcriptions.create.
HandlerAfterVerify(rec, outcome, err) ==
    [rec EXCEPT !.outcome = outcome, !.error = err,
                !.status = CASE outcome = "reject" -> 403
                             [] outcome = "error" -> 500
                             [] OTHER -> 0,
                !.responses = IF outcome = "accept" THEN @ ELSE @ + 1,
                !.tempUnlinks = IF outcome = "accept" THEN @ ELSE @ + 1,
                !.nTranscribe = IF outcome = "accept" THEN @ + 1 ELSE @,
                !.pc = IF outcome = "accept" THEN "transcribing" ELSE "done"]

\* verifySpeaker leaves its try block with a result or an error.
Settle(rec, outcome, err) == HandlerAfterVerify(Finally(rec), outcome, err)

ReadErrors == {"ENOENT", "decodeError"}

\* fs.readFileSync + wav.decode of uploads/enrollment.wav: ENOENT when the
\* file is gone; while another call's ffmpeg is rewriting it, the decode
\* throws, or yields what is written so far, or by chance all of it.
ReadEnroll(exists, writers) ==
    IF ~exists THEN {"ENOENT"}
    ELSE IF writers # {}
         THEN {"decodeError", Truncated(enrollmentFile), enrollmentFile}
         ELSE {enrollmentFile}

\* the same for the call's own verify_<uuid>.wav
ReadVerify(rec) == IF rec.verifyWav = "absent" THEN "ENOENT" ELSE rec.file

\* Both conversions have ended: the two extractEmbedding calls read and
\* decode their files and hand the samples to verifierProcessor.
AfterRead(rec, re, rv) ==
    LET r1 == [rec EXCEPT !.readE = re, !.readV = rv, !.nExtract = @ + 1,
                          !.invoked = (re \notin ReadErrors) \/ (rv \notin ReadErrors),
                          !.invokedLoaded = verifierProcessor = "loaded"
                                            /\ verifierModel = "loaded"]
    IN  IF re \in ReadErrors THEN Settle(r1, "error", re)
        ELSE IF rv \in ReadErrors THEN Settle(r1, "error", rv)
        ELSE IF verifierProcessor = "undefined" THEN Settle(r1, "error", "TypeError")
        ELSE [r1 EXCEPT !.pc = "extracting"]

\* A request arrives: no file answers 400; model_selection 'personalized'
\* calls verifySpeaker, which returns false at once without the model and
\* otherwise starts the two ffmpeg conversions.
Arrive(c, req) ==
    /\ Running
    /\ call[c].pc = "idle"
    /\ \A d \in Calls : d < c => call[d].pc # "idle"
    /\ LET r0 == [call[c] EXCEPT !.file = req.file, !.sel = req.sel]
       IN  call' = [call EXCEPT ![c] =
              IF req.file = "none"
              THEN [r0 EXCEPT !.status = 400, !.responses = @ + 1, !.pc = "done"]
              ELSE IF req.sel # "personalized"
              THEN [r0 EXCEPT !.nTranscribe = @ + 1, !.pc = "transcribing"]
              ELSE IF ModelGuard
              THEN HandlerAfterVerify([r0 EXCEPT !.nVerify = @ + 1],
                                      "reject", "none")
              ELSE [r0 EXCEPT !.nVerify = @ + 1,
                              !.guardPassed = TRUE, !.pc = "converting",
                              !.convE = "spawned", !.convV = "spawned",
                              !.nConv = @ + 1]]
    /\ UNCHANGED <<enrollWavExists, enrollWavWriters, Rest>>

\* ffmpeg(ENROLLMENT_FILE) emits 'error': Promise.all rejects.
ConvEFail(c) ==
    /\ Running
    /\ call[c].convE = "spawned"
    /\ FfmpegFails(enrollmentFile)
    /\ LET r0 == [call[c] EXCEPT !.convE = "failed"]
       IN  call' = [call EXCEPT ![c] =
              IF r0.pc = "converting" THEN Settle(r0, "error", "ffmpeg") ELSE r0]
    /\ UNCHANGED <<enrollWavExists, enrollWavWriters, Rest>>

\* ffmpeg opens uploads/enrollment.wav for writing, creating or truncating it.
ConvEOpen(c) ==
    /\ Running
    /\ call[c].convE = "spawned"
    /\ ~FfmpegFails(enrollmentFile)
    /\ call' = [call EXCEPT ![c].convE = "writing"]
    /\ enrollWavExists' = TRUE
    /\ enrollWavWriters' = enrollWavWriters \cup {c}
    /\ UNCHANGED Rest

\* ffmpeg(ENROLLMENT_FILE) emits 'end'.
ConvEEnd(c) ==
    /\ Running
    /\ call[c].convE = "writing"
    /\ enrollWavWriters' = enrollWavWriters \ {c}
    /\ LET r0 == [call[c] EXCEPT !.convE = "ended"]
       IN  IF r0.pc = "converting" /\ r0.convV = "ended"
           THEN \E re \in ReadEnroll(enrollWavExists, enrollWavWriters \ {c}) :
                   call' = [call EXCEPT ![c] = AfterRead(r0, re, ReadVerify(r0))]
           ELSE call' = [call EXCEPT ![c] = r0]
    /\ UNCHANGED <<enrollWavExists, Rest>>

\* ffmpeg(verificationAudioPath) emits 'error'.
ConvVFail(c) ==
    /\ Running
    /\ call[c].convV = "spawned"
    /\ FfmpegFails(call[c].file)
    /\ LET r0 == [call[c] EXCEPT !.convV = "failed"]
       IN  call' = [call EXCEPT ![c] =
              IF r0.pc = "converting" THEN Settle(r0, "error", "ffmpeg") ELSE r0]
    /\ UNCHANGED <<enrollWavExists, enrollWavWriters, Rest>>

\* ffmpeg(verificationAudioPath) emits 'end'. ffmpeg created
\* uploads/verify_<uuid>.wav at some moment after its spawn: when
\* fs.unlink(verificationWav) ran in between (Promise.all had rejected),
\* it either removed the file ffmpeg was writing (opened before the unlink)
\* or found none yet, and then the finished file stays (opened after).
ConvVEnd(c) ==
    /\ Running
    /\ call[c].convV = "spawned"
    /\ ~FfmpegFails(call[c].file)
    /\ \E w \in (IF call[c].unlinkV = "done" THEN {"absent", "complete"}
                  ELSE {"complete"}) :
         LET r0 == [call[c] EXCEPT !.convV = "ended", !.verifyWav = w]
         IN  IF r0.pc = "converting" /\ r0.convE = "ended"
             THEN \E re \in ReadEnroll(enrollWavExists, enrollWavWriters) :
                     call' = [call EXCEPT ![c] = AfterRead(r0, re, ReadVerify(r0))]
             ELSE call' = [call EXCEPT ![c] = r0]
    /\ UNCHANGED <<enrollWavExists, enrollWavWriters, Rest>>

\* Both embeddings are back (or the model threw): cosineSimilarity, the
\* threshold comparison, finally, and the handler's answer.
Extracted(c) ==
    /\ Running
    /\ call[c].pc = "extracting"
    /\ LET rec == call[c]
           sim == cosineSimilarity(Embedding(rec.readE), Embedding(rec.readV))
       IN  call' = [call EXCEPT ![c] =
              IF verifierModel = "undefined" THEN Settle(rec, "error", "TypeError")
              ELSE IF InferenceFails(rec.readE) \/ InferenceFails(rec.readV)
              THEN Settle(rec, "error", "inference")
              ELSE Settle([rec EXCEPT !.score = sim, !.nScore = @ + 1],
                          IF ServerDecision(sim) THEN "accept" ELSE "reject",
                          "none")]
    /\ UNCHANGED <<enrollWavExists, enrollWavWriters, Rest>>

\* fs.unlink(enrollmentWav) runs: the path is gone, whoever wrote the file.
UnlinkE(c) ==
    /\ Running
    /\ call[c].unlinkE = "pending"
    /\ call' = [call EXCEPT ![c].unlinkE = "done"]
    /\ enrollWavExists' = FALSE
    /\ enrollWavWriters' = {}
    /\ UNCHANGED Rest

\* fs.unlink(verificationWav) runs.
UnlinkV(c) ==
    /\ Running
    /\ call[c].unlinkV = "pending"
    /\ call' = [call EXCEPT ![c].unlinkV = "done", ![c].verifyWav = "absent"]
    /\ UNCHANGED <<enrollWavExists, enrollWavWriters, Rest>>

NextServer ==
    \/ ListenCallback \/ ProcessorLoaded \/ ModelLoaded \/ LoadFailed
    \/ \E c \in Calls :
         \/ \E req \in Requests : Arrive(c, req)
         \/ ConvEFail(c) \/ ConvEOpen(c) \/ ConvEEnd(c)
         \/ ConvVFail(c) \/ ConvVEnd(c)
         \/ Extracted(c)
         \/ UnlinkE(c) \/ UnlinkV(c)

SpecServer == InitServer /\ [][NextServer]_vars

\* ------------------------------ the handler after the verification
\* The requests drawn for the handler: without a file, not personalized,
\* personalized.
HandlerRequests ==
    {[file |-> "none", sel |-> "standard"], [file |-> "same", sel |-> "standard"],
     [file |-> "same", sel |-> "personalized"]}

InitHandler ==
    /\ loadPc = "init"
    /\ verifierProcessor = "undefined"
    /\ verifierModel = "undefined"
    /\ assigns = [processor |-> 0, model |-> 0]
    /\ enrollmentFile = "R"
    /\ enrollWavExists = FALSE
    /\ enrollWavWriters = {}
    /\ call = [c \in Calls |-> NewCall]
    /\ latest_summary_audio_path = 0
    /\ latest_transcription_audio_path = 0
    /\ ScorerIdle /\ BrowserIdle /\ ToolIdle

HandlerRest == <<loadPc, verifierProcessor, verifierModel, assigns,
                 enrollmentFile, enrollWavExists, enrollWavWriters,
                 scorerVars, browserVars, toolVars>>

\* catch (error) { res.status(500) } finally { fs.unlink(tempAudioPath) }
HandlerCatch(rec, err) ==
    [rec EXCEPT !.status = 500, !.error = err, !.responses = @ + 1,
                !.tempUnlinks = @ + 1, !.pc = "done"]

\* await verifySpeaker(tempAudioPath) settles with true, false or a throw;
\* what happens inside it is followed in SpecServer. A result means both
\* conversions have ended.
VerifySpeakerSettles(c, outcome) ==
    /\ Running
    /\ call[c].pc = "converting"
    /\ call' = [call EXCEPT ![c] =
          IF outcome = "error"
          THEN HandlerAfterVerify(call[c], "error", "thrown")
          ELSE HandlerAfterVerify([call[c] EXCEPT !.convE = "ended",
                                                  !.convV = "ended"],
                                  outcome, "none")]
    /\ UNCHANGED <<latestPaths, HandlerRest>>

\* groq.audio.transcriptions.create resolves: summarizeWithGroq starts.
Transcribed(c) ==
    /\ Running
    /\ call[c].pc = "transcribing"
    /\ call' = [call EXCEPT ![c].nSummarize = @ + 1, ![c].pc = "summarizing"]
    /\ UNCHANGED <<latestPaths, HandlerRest>>

\* groq.audio.transcriptions.create rejects.
TranscriptionFailed(c) ==
    /\ Running
    /\ call[c].pc = "transcribing"
    /\ call' = [call EXCEPT ![c] = HandlerCatch(call[c], "transcription")]
    /\ UNCHANGED <<latestPaths, HandlerRest>>

\* summarizeWithGroq resolves (with the parsed answer or its fallback
\* text): the first speech synthesis starts.
Summarized(c) ==
    /\ Running
    /\ call[c].pc = "summarizing"
    /\ call' = [call EXCEPT ![c].nSpeak = @ + 1, ![c].pc = "speakingSummary"]
    /\ UNCHANGED <<latestPaths, HandlerRest>>

\* summarizeWithGroq resolves with null (the chat answered "null"):
\* naturalTextDict.natural_text throws.
SummaryUnusable(c) ==
    /\ Running
    /\ call[c].pc = "summarizing"
    /\ call' = [call EXCEPT ![c] = HandlerCatch(call[c], "TypeError")]
    /\ UNCHANGED <<latestPaths, HandlerRest>>

\* latest_summary_audio_path = await speak...(naturalText): the file made
\* for this request, or null when the synthesis failed or the text was
\* empty; then speakWithGTTS(initialTranscription) starts.
SummarySpoken(c, ok) ==
    /\ Running
    /\ call[c].pc = "speakingSummary"
    /\ latest_summary_audio_path' = IF ok THEN c ELSE 0
    /\ call' = [call EXCEPT ![c].nSpeak = @ + 1,
                            ![c].pc = "speakingTranscription"]
    /\ UNCHANGED <<latest_transcription_audio_path, HandlerRest>>

\* latest_transcription_audio_path = await speakWithGTTS(...); 200; finally.
TranscriptionSpoken(c, ok) ==
    /\ Running
    /\ call[c].pc = "speakingTranscription"
    /\ latest_transcription_audio_path' = IF ok THEN c ELSE 0
    /\ call' = [call EXCEPT ![c].status = 200, ![c].responses = @ + 1,
                            ![c].tempUnlinks = @ + 1, ![c].pc = "done"]
    /\ UNCHANGED <<latest_summary_audio_path, HandlerRest>>

\* GET /get_response_audio of the client whose request c was answered 200:
\* the file latest_summary_audio_path names, or 404 (-1) for null.
GetResponseAudio(c) ==
    /\ Running
    /\ call[c].status = 200
    /\ call[c].gotSummary = 0
    /\ call' = [call EXCEPT ![c].gotSummary =
          IF latest_summary_audio_path = 0 THEN -1
          ELSE latest_summary_audio_path]
    /\ UNCHANGED <<latestPaths, HandlerRest>>

\* GET /get_transcription_audio of the same client.
GetTranscriptionAudio(c) ==
    /\ Running
    /\ call[c].status = 200
    /\ call[c].gotTranscription = 0
    /\ call' = [call EXCEPT ![c].gotTranscription =
          IF latest_transcription_audio_path = 0 THEN -1
          ELSE latest_transcription_audio_path]
    /\ UNCHANGED <<latestPaths, HandlerRest>>

NextHandler ==
    \/ ListenCallback \/ ProcessorLoaded \/ ModelLoaded \/ LoadFailed
    \/ \E c \in Calls :
         \/ \E req \in HandlerRequests : Arrive(c, req)
         \/ \E o \in {"accept", "reject", "error"} : VerifySpeakerSettles(c, o)
         \/ Transcribed(c) \/ TranscriptionFailed(c)
         \/ Summarized(c) \/ SummaryUnusable(c)
         \/ \E ok \in BOOLEAN : SummarySpoken(c, ok)
         \/ \E ok \in BOOLEAN : TranscriptionSpoken(c, ok)
         \/ GetResponseAudio(c) \/ GetTranscriptionAudio(c)

SpecHandler == InitHandler /\ [][NextHandler]_vars

\* ------------------------------------- the browser's enrollment recording
InitEnroll ==
    /\ loadPc = "init"
    /\ verifierProcessor = "undefined"
    /\ verifierModel = "undefined"
    /\ assigns = [processor |-> 0, model |-> 0]
    /\ enrollmentFile \in {"none", "R"}
    /\ enrollWavExists = FALSE
    /\ enrollWavWriters = {}
    /\ call = [c \in Calls |-> NewCall]
    /\ latest_summary_audio_path = 0
    /\ latest_transcription_audio_path = 0
    /\ ScorerIdle /\ BrowserIdle /\ ToolIdle

Unused == {r \in Recorders : recorders[r].state = "unused"}

\* enrollmentAudioChunks = []; enrollmentRecorder = new MediaRecorder(...);
\* enrollmentRecorder.start(); isEnrolling = true; ...
StartEnrollRecorder(a) ==
    LET r == CHOOSE x \in Unused : \A y \in Unused : x <= y
    IN  /\ enrollmentAudioChunks' = <<>>
        /\ enrollmentRecorder' = r
        /\ recorders' = [recorders EXCEPT ![r] = [state |-> "recording", audio |-> a]]
        /\ isEnrolling' = TRUE
        /\ enrollmentStatus' = "Recording your voice..."

\* A click on enrollButton while enrolling: enrollmentRecorder.stop().
\* The recorder turns inactive at once; its dataavailable and stop events
\* come later. A stop() on a recorder that is not recording changes nothing.
ClickEnrollStop ==
    /\ isEnrolling
    /\ LET r == enrollmentRecorder
       IN  IF recorders[r].state = "recording"
           THEN /\ recorders' = [recorders EXCEPT ![r].state = "stopping"]
                /\ UNCHANGED stopOnInactive
           ELSE /\ stopOnInactive' = TRUE
                /\ UNCHANGED recorders
    /\ UNCHANGED <<mediaStream, pendingInit, isEnrolling, enrollmentRecorder,
                   enrollmentAudioChunks, enrollmentStatus, uploads, lastEnroll,
                   mainRecVars, serverVars, scorerVars, toolVars>>

\* A click while not enrolling, the stream being active: initializeAudio
\* returns true and the recording starts.
ClickEnrollStart(a) ==
    /\ ~isEnrolling
    /\ mediaStream = "active"
    /\ Cardinality(Unused) > pendingInit
    /\ StartEnrollRecorder(a)
    /\ UNCHANGED <<mediaStream, pendingInit, stopOnInactive, uploads, lastEnroll,
                   mainRecVars, serverVars, scorerVars, toolVars>>

\* A click while not enrolling, without a stream: initializeAudio awaits
\* navigator.mediaDevices.getUserMedia.
ClickEnrollAsk ==
    /\ ~isEnrolling
    /\ mediaStream = "null"
    /\ Cardinality(Unused) > pendingInit
    /\ pendingInit' = pendingInit + 1
    /\ UNCHANGED <<mediaStream, isEnrolling, enrollmentRecorder, recorders,
                   enrollmentAudioChunks, enrollmentStatus, stopOnInactive,
                   uploads, lastEnroll, mainRecVars, serverVars, scorerVars, toolVars>>

\* getUserMedia resolves: mediaStream is set and the click handler goes on.
MicGranted(a) ==
    /\ pendingInit > 0
    /\ pendingInit' = pendingInit - 1
    /\ mediaStream' = "active"
    /\ StartEnrollRecorder(a)
    /\ UNCHANGED <<stopOnInactive, uploads, lastEnroll, mainRecVars, serverVars,
                   scorerVars, toolVars>>

\* getUserMedia rejects: alert, initializeAudio returns false, the handler
\* returns.
MicDenied ==
    /\ pendingInit > 0
    /\ pendingInit' = pendingInit - 1
    /\ UNCHANGED <<mediaStream, isEnrolling, enrollmentRecorder, recorders,
                   enrollmentAudioChunks, enrollmentStatus, stopOnInactive,
                   uploads, lastEnroll, mainRecVars, serverVars, scorerVars, toolVars>>

\* The stopped recorder's events: ondataavailable pushes its data, onstop
\* runs sendEnrollmentAudio up to its fetch of /enroll_voice.
RecorderStopped(r) ==
    /\ recorders[r].state = "stopping"
    /\ recorders' = [recorders EXCEPT ![r].state = "stopped"]
    /\ enrollmentAudioChunks' = Append(enrollmentAudioChunks, r)
    /\ isEnrolling' = FALSE
    /\ enrollmentStatus' = "Processing..."
    /\ uploads' = uploads \cup {recorders[r].audio}
    /\ UNCHANGED <<mediaStream, pendingInit, enrollmentRecorder, stopOnInactive,
                   lastEnroll, mainRecVars, serverVars, scorerVars, toolVars>>

\* The server answers the upload. No route takes POST /enroll_voice: Express
\* answers 404 with an HTML body, response.json() throws, and
\* sendEnrollmentAudio's catch shows the error. audio_saya.mp3 stays as it is.
EnrollAnswered(a) ==
    /\ Running
    /\ a \in uploads
    /\ uploads' = uploads \ {a}
    /\ LET st == RouteStatus("POST", "/enroll_voice")
       IN  /\ lastEnroll' = [audio |-> a, status |-> st]
           /\ enrollmentStatus' = IF st = 404 THEN "Error"
                                   ELSE "Voice registered successfully!"
    /\ UNCHANGED <<mediaStream, pendingInit, isEnrolling, enrollmentRecorder,
                   recorders, enrollmentAudioChunks, stopOnInactive,
                   mainRecVars, serverVars, scorerVars, toolVars>>

\* The server is not there: fetch rejects and the catch shows the error.
EnrollFetchFailed(a) ==
    /\ ~Running
    /\ a \in uploads
    /\ uploads' = uploads \ {a}
    /\ enrollmentStatus' = "Error"
    /\ UNCHANGED <<mediaStream, pendingInit, isEnrolling, enrollmentRecorder,
                   recorders, enrollmentAudioChunks, stopOnInactive, lastEnroll,
                   mainRecVars, serverVars, scorerVars, toolVars>>

NextEnroll ==
    \/ ListenCallback \/ ProcessorLoaded \/ ModelLoaded \/ LoadFailed
    \/ ClickEnrollStop \/ ClickEnrollAsk \/ MicDenied
    \/ \E a \in EnrollAudios :
         \/ ClickEnrollStart(a) \/ MicGranted(a)
         \/ EnrollAnswered(a) \/ EnrollFetchFailed(a)
    \/ \E r \in Recorders : RecorderStopped(r)

SpecEnroll == InitEnroll /\ [][NextEnroll]_vars

\* ------------------------------------ the browser's main recording
\* modelSelector.value at the moment of the upload
Selections == {"standard", "personalized"}

\* How a POST /process_audio ends for the page: an HTTP status, or 0 for a
\* fetch that rejects.
ProcessStatuses == {0, 200, 403, 500}

InitRecord == ServerIdle /\ ScorerIdle /\ ToolIdle /\ BrowserIdle

RecordOthers == <<enrollVars, serverVars, scorerVars, toolVars>>

UnusedMain == {r \in Recorders : mainRecorders[r].state = "unused"}

\* audioChunks = []; mediaRecorder = new MediaRecorder(...); ...
\* mediaRecorder.start(); isRecording = true; ...
StartMainRecorder ==
    LET r == CHOOSE x \in UnusedMain : \A y \in UnusedMain : x <= y
    IN  /\ audioChunks' = <<>>
        /\ mediaRecorder' = r
        /\ mainRecorders' = [mainRecorders EXCEPT ![r].state = "recording"]
        /\ isRecording' = TRUE
        /\ recordingStatus' = "Recording... Press to stop."

\* A click on recordButton while isRecording: mediaRecorder.stop(). The
\* recorder turns inactive at once; its dataavailable and stop events come
\* later. stop() on a recorder that is not recording throws.
ClickRecordStop ==
    /\ isRecording
    /\ LET r == mediaRecorder
       IN  IF mainRecorders[r].state = "recording"
           THEN /\ mainRecorders' = [mainRecorders EXCEPT ![r].state = "stopping"]
                /\ UNCHANGED recordStopOnInactive
           ELSE /\ recordStopOnInactive' = TRUE
                /\ UNCHANGED mainRecorders
    /\ UNCHANGED <<mediaStream, isRecording, mediaRecorder, audioChunks,
                   pendingRecordInit, processUploads, recordingStatus,
                   RecordOthers>>

\* A click while not recording, the stream being active: initializeAudio
\* returns true and the recording starts.
ClickRecordStart ==
    /\ ~isRecording
    /\ mediaStream = "active"
    /\ Cardinality(UnusedMain) > pendingRecordInit
    /\ StartMainRecorder
    /\ UNCHANGED <<mediaStream, pendingRecordInit, recordStopOnInactive,
                   processUploads, RecordOthers>>

\* A click while not recording, without a stream: initializeAudio awaits
\* navigator.mediaDevices.getUserMedia.
ClickRecordAsk ==
    /\ ~isRecording
    /\ mediaStream = "null"
    /\ Cardinality(UnusedMain) > pendingRecordInit
    /\ pendingRecordInit' = pendingRecordInit + 1
    /\ UNCHANGED <<mediaStream, isRecording, mediaRecorder, mainRecorders,
                   audioChunks, recordStopOnInactive, processUploads,
                   recordingStatus, RecordOthers>>

\* getUserMedia resolves for one waiting click: mediaStream is set and that
\* click's handler goes on, whatever isRecording has become.
RecordMicGranted ==
    /\ pendingRecordInit > 0
    /\ pendingRecordInit' = pendingRecordInit - 1
    /\ mediaStream' = "active"
    /\ StartMainRecorder
    /\ UNCHANGED <<recordStopOnInactive, processUploads, RecordOthers>>

\* getUserMedia rejects: alert, initializeAudio returns false, the handler
\* returns.
RecordMicDenied ==
    /\ pendingRecordInit > 0
    /\ pendingRecordInit' = pendingRecordInit - 1
    /\ UNCHANGED <<mediaStream, isRecording, mediaRecorder, mainRecorders,
                   audioChunks, recordStopOnInactive, processUploads,
                   recordingStatus, RecordOthers>>

\* The stopped recorder's events: ondataavailable pushes its data, onstop
\* runs sendAudioToServer up to its fetch of /process_audio with a Blob of
\* audioChunks.
MainRecorderStopped(r, sel) ==
    /\ mainRecorders[r].state = "stopping"
    /\ audioChunks' = Append(audioChunks, r)
    /\ mainRecorders' = [mainRecorders EXCEPT
                            ![r].state = "stopped",
                            ![r].uploads = @ + 1,
                            ![r].sent = Append(audioChunks, r)]
    /\ isRecording' = FALSE
    /\ recordingStatus' = "Processing..."
    /\ processUploads' = processUploads \cup {[recorder |-> r, sel |-> sel]}
    /\ UNCHANGED <<mediaStream, mediaRecorder, pendingRecordInit,
                   recordStopOnInactive, RecordOthers>>

\* The upload is answered (or the fetch rejects): the status line shows
\* the end or the error.
ProcessAnswered(u, st) ==
    /\ u \in processUploads
    /\ processUploads' = processUploads \ {u}
    /\ recordingStatus' = IF st = 200 THEN "Done! Record another?" ELSE "ERROR"
    /\ UNCHANGED <<mediaStream, isRecording, mediaRecorder, mainRecorders,
                   audioChunks, pendingRecordInit, recordStopOnInactive,
                   RecordOthers>>

NextRecord ==
    \/ ClickRecordStop \/ ClickRecordStart \/ ClickRecordAsk
    \/ RecordMicGranted \/ RecordMicDenied
    \/ \E r \in Recorders, sel \in Selections : MainRecorderStopped(r, sel)
    \/ \E r \in Recorders, sel \in Selections, st \in ProcessStatuses :
         ProcessAnswered([recorder |-> r, sel |-> sel], st)

SpecRecord == InitRecord /\ [][NextRecord]_vars

\* ------------------------------------------------------ scorer inputs
RECURSIVE SeqsOfLen(_, _)
SeqsOfLen(S, n) ==
    IF n = 0 THEN {<<>>}
    ELSE {Append(s, x) : s \in SeqsOfLen(S, n - 1), x \in S}

\* Pairs whose cosine is exactly 69/100, 7/10 and 3/10, and 4/5, 3/4, 3/5
\* and 1/2, in both orders.
BoundaryPairs ==
    LET P == { <<<<1, 0, 0, 0, 0>>, <<69, 71, 14, 1, 1>>>>,
               <<<<1, 0, 0, 0>>, <<7, 7, 1, 1>>>>,
               <<<<1, 0, 0, 0>>, <<3, 9, 3, 1>>>>,
               <<<<1, 0>>, <<4, 3>>>>,
               <<<<1, 0, 0, 0, 0>>, <<3, 2, 1, 1, 1>>>>,
               <<<<1, 0>>, <<3, 4>>>>,
               <<<<1, 0, 0, 0>>, <<1, 1, 1, 1>>>> }
    IN  P \cup {<<p[2], p[1]>> : p \in P}

Vectors == UNION {SeqsOfLen((-MaxVal)..MaxVal, n) : n \in 1..MaxDim}

VectorPairs == (Vectors \X Vectors) \cup BoundaryPairs

\* ------------------------------------------------ the interactive tool
\* Durations (seconds) ffprobe may report for audio_saya.mp3.
ToolDurations == {4, 10, 12, 20}

\* Characters of an answer to the duration prompt.
InputChars == {"1", "3", "5", " ", "-", "a"}

DurasiInputs == UNION {SeqsOfLen(InputChars, n) : n \in 0..MaxInputLen}

DigitVal(ch) == CASE ch = "1" -> 1 [] ch = "3" -> 3 [] ch = "5" -> 5 [] OTHER -> -1

RECURSIVE SkipSpaces(_)
SkipSpaces(str) ==
    IF str # <<>> /\ Head(str) = " " THEN SkipSpaces(Tail(str)) ELSE str

RECURSIVE DigitsValue(_, _)
\* the value of the longest prefix of digits, after `acc`
DigitsValue(str, acc) ==
    IF str # <<>> /\ DigitVal(Head(str)) >= 0
    THEN DigitsValue(Tail(str), 10 * acc + DigitVal(Head(str)))
    ELSE acc

\* parseInt(str): leading white space is skipped, then an optional sign,
\* then digits up to the first other character; NaN without a digit.
ParseInt(str) ==
    LET t == SkipSpaces(str)
        neg == t # <<>> /\ Head(t) = "-"
        u == IF neg THEN Tail(t) ELSE t
    IN  IF u = <<>> \/ DigitVal(Head(u)) < 0 THEN [nan |-> TRUE, v |-> 0]
        ELSE [nan |-> FALSE,
              v |-> IF neg THEN -DigitsValue(u, 0) ELSE DigitsValue(u, 0)]

\* let durasiRekam = parseInt(durasiInput) || 10; then the clamp:
\* below 3 becomes 5, above 30 becomes 30.
DurasiRekam(str) ==
    LET pi == ParseInt(str)
        d == IF pi.nan \/ pi.v = 0 THEN 10 ELSE pi.v
    IN  IF d < 3 THEN 5 ELSE IF d > 30 THEN 30 ELSE d

InitTool ==
    /\ ServerIdle /\ ScorerIdle /\ BrowserIdle
    /\ toolPc = "start"
    /\ toolEnrollmentFile \in {"none", "R"}
    /\ totalDuration = 0
    /\ toolEnrollWav = "absent"
    /\ toolVerifyWav = "absent"
    /\ durasiRekam = 0
    /\ toolSimilarity = Unset
    /\ isMe = FALSE
    /\ confidence = ""
    /\ interpretasi = ""
    /\ elapsed = 0
    /\ bars = 0
    /\ empty = 20
    /\ intervalOn = FALSE
    /\ exitCode = -1
    /\ rlClosed = FALSE

ToolOthers == <<serverVars, scorerVars, browserVars>>

\* what main's report holds
toolReport == <<toolSimilarity, isMe, confidence, interpretasi>>

\* recordAudio's timer and the progress bar
recVars == <<elapsed, bars, empty, intervalOn>>

\* catch (error) { ...; process.exit(1) }: the process ends inside the
\* catch, before the finally's rl.close().
ToolCatch ==
    /\ toolPc' = "failed"
    /\ exitCode' = 1

\* if (!fs.existsSync(ENROLLMENT_FILE)) throw ...; else ffprobe starts.
ToolStart ==
    /\ toolPc = "start"
    /\ IF toolEnrollmentFile = "none" THEN ToolCatch
       ELSE toolPc' = "probing" /\ UNCHANGED exitCode
    /\ UNCHANGED <<toolEnrollmentFile, totalDuration, toolEnrollWav,
                   toolVerifyWav, durasiRekam, toolReport, recVars, rlClosed,
                   ToolOthers>>

\* getAudioDuration resolves; convertAndTrimAudio(ENROLLMENT_FILE,
\* ENROLLMENT_WAV, Math.min(12, totalDuration)) starts its ffmpeg.
ToolProbed(d) ==
    /\ toolPc = "probing"
    /\ totalDuration' = d
    /\ toolPc' = "converting"
    /\ UNCHANGED <<toolEnrollmentFile, toolEnrollWav, toolVerifyWav, durasiRekam,
                   toolReport, recVars, exitCode, rlClosed, ToolOthers>>

\* ffmpeg opens enrollment.wav for writing.
ToolConvertOpen ==
    /\ toolPc = "converting"
    /\ toolEnrollWav # "partial"
    /\ toolEnrollWav' = "partial"
    /\ UNCHANGED <<toolPc, toolEnrollmentFile, totalDuration, toolVerifyWav,
                   durasiRekam, toolReport, recVars, exitCode, rlClosed,
                   ToolOthers>>

\* the conversion's 'end': main goes on to the duration prompt.
ToolConvertEnd ==
    /\ toolPc = "converting"
    /\ toolEnrollWav = "partial"
    /\ toolEnrollWav' = "complete"
    /\ toolPc' = "askDuration"
    /\ UNCHANGED <<toolEnrollmentFile, totalDuration, toolVerifyWav, durasiRekam,
                   toolReport, recVars, exitCode, rlClosed, ToolOthers>>

\* The answer to "Durasi (detik): " and the ENTER that starts the
\* recording: recordAudio spawns ffmpeg with -t durasiRekam, sets
\* elapsed = 0 and starts the one-second timer.
ToolAnswered(str) ==
    /\ toolPc = "askDuration"
    /\ durasiRekam' = DurasiRekam(str)
    /\ toolPc' = "recording"
    /\ elapsed' = 0
    /\ intervalOn' = TRUE
    /\ UNCHANGED <<toolEnrollmentFile, totalDuration, toolEnrollWav,
                   toolVerifyWav, toolReport, bars, empty, exitCode, rlClosed,
                   ToolOthers>>

\* printProgress(progress, total): bars = Math.floor(percentage / 5) with
\* percentage = (progress / total) * 100.
Bars(progress, total) == (20 * progress) \div total

\* The timer fires: elapsed++; printProgress(elapsed, duration). With
\* empty = 20 - bars below 0, '░'.repeat(empty) throws a RangeError in the
\* timer callback, which nothing catches: the process dies with code 1.
ToolTick ==
    /\ intervalOn
    /\ elapsed < durasiRekam + MaxLate
    /\ elapsed' = elapsed + 1
    /\ bars' = Bars(elapsed + 1, durasiRekam)
    /\ empty' = 20 - Bars(elapsed + 1, durasiRekam)
    /\ IF 20 - Bars(elapsed + 1, durasiRekam) < 0
       THEN toolPc' = "crashed" /\ exitCode' = 1 /\ intervalOn' = FALSE
       ELSE UNCHANGED <<toolPc, exitCode, intervalOn>>
    /\ UNCHANGED <<toolEnrollmentFile, totalDuration, toolEnrollWav,
                   toolVerifyWav, durasiRekam, toolReport, rlClosed, ToolOthers>>

\* The recording ffmpeg opens verification.wav for writing.
ToolRecordOpen ==
    /\ toolPc = "recording"
    /\ toolVerifyWav # "partial"
    /\ toolVerifyWav' = "partial"
    /\ UNCHANGED <<toolPc, toolEnrollmentFile, totalDuration, toolEnrollWav,
                   durasiRekam, toolReport, recVars, exitCode, rlClosed,
                   ToolOthers>>

\* ffmpegProcess 'close' with code 0, which ffmpeg -t durasiRekam reaches
\* no sooner than that many seconds after its spawn (the timer may be one
\* tick behind): clearInterval; the two from_pretrained loads start.
ToolRecordClosed ==
    /\ toolPc = "recording"
    /\ toolVerifyWav = "partial"
    /\ elapsed >= durasiRekam - 1
    /\ toolVerifyWav' = "complete"
    /\ intervalOn' = FALSE
    /\ toolPc' = "loading"
    /\ UNCHANGED <<toolEnrollmentFile, totalDuration, toolEnrollWav, durasiRekam,
                   toolReport, elapsed, bars, empty, exitCode, rlClosed,
                   ToolOthers>>

\* The models are loaded, both files are read and decoded, both embeddings
\* extracted; cosineSimilarity, the decision, the report; finally rl.close().
ToolVerified(p) ==
    /\ toolPc = "loading"
    /\ toolSimilarity' = cosineSimilarity(p[1], p[2])
    /\ isMe' = ToolDecision(cosineSimilarity(p[1], p[2]))
    /\ confidence' = Confidence(cosineSimilarity(p[1], p[2]))
    /\ interpretasi' = Interpretasi(cosineSimilarity(p[1], p[2]))
    /\ toolPc' = "done"
    /\ rlClosed' = TRUE
    /\ UNCHANGED <<toolEnrollmentFile, totalDuration, toolEnrollWav,
                   toolVerifyWav, durasiRekam, recVars, exitCode, ToolOthers>>

\* An awaited step rejects (ffprobe, a conversion, the recording's 'close'
\* with a code other than 0 or its 'error', both after clearInterval, a
\* model load, an extraction): main's catch.
ToolStepFailed ==
    /\ toolPc \in {"probing", "converting", "recording", "loading"}
    /\ ToolCatch
    /\ intervalOn' = FALSE
    /\ UNCHANGED <<toolEnrollmentFile, totalDuration, toolEnrollWav,
                   toolVerifyWav, durasiRekam, toolReport, elapsed, bars, empty,
                   rlClosed, ToolOthers>>

\* process.on('SIGINT'): rl.close(); process.exit(0)
ToolSigint ==
    /\ toolPc \notin {"off", "done", "failed", "interrupted", "crashed"}
    /\ toolPc' = "interrupted"
    /\ rlClosed' = TRUE
    /\ exitCode' = 0
    /\ intervalOn' = FALSE
    /\ UNCHANGED <<toolEnrollmentFile, totalDuration, toolEnrollWav,
                   toolVerifyWav, durasiRekam, toolReport, elapsed, bars, empty,
                   ToolOthers>>

NextTool ==
    \/ ToolStart
    \/ \E d \in ToolDurations : ToolProbed(d)
    \/ ToolConvertOpen \/ ToolConvertEnd
    \/ \E str \in DurasiInputs : ToolAnswered(str)
    \/ ToolTick
    \/ ToolRecordOpen \/ ToolRecordClosed
    \/ \E p \in VectorPairs : ToolVerified(p)
    \/ ToolStepFailed
    \/ ToolSigint

SpecTool == InitTool /\ [][NextTool]_vars

InitScorer ==
    /\ ServerIdle /\ BrowserIdle /\ ToolIdle
    /\ \E p \in VectorPairs : vecA = p[1] /\ vecB = p[2]
    /\ scorerPc = "input"
    /\ similarity = Unset
    /\ serverAccepts = FALSE
    /\ toolIsMe = FALSE

\* const similarity = cosineSimilarity(enrollmentEmbed, verificationEmbed)
ApplyCosine ==
    /\ scorerPc = "input"
    /\ similarity' = cosineSimilarity(vecA, vecB)
    /\ scorerPc' = "scored"
    /\ UNCHANGED <<vecA, vecB, serverAccepts, toolIsMe, serverVars,
                   browserVars, toolVars>>

\* the threshold comparison of the server and of the tool
ApplyDecision ==
    /\ scorerPc = "scored"
    /\ serverAccepts' = ServerDecision(similarity)
    /\ toolIsMe' = ToolDecision(similarity)
    /\ scorerPc' = "decided"
    /\ UNCHANGED <<vecA, vecB, similarity, serverVars, browserVars, toolVars>>

NextScorer == ApplyCosine \/ ApplyDecision

SpecScorer == InitScorer /\ [][NextScorer]_vars

\* ================================================================ claims

\* What verifySpeaker returns for a probe when no other call is running.
SoloOutcome(file) ==
    IF FfmpegFails(enrollmentFile) \/ FfmpegFails(file) \/ InferenceFails(file)
    THEN "error"
    ELSE IF ServerDecision(cosineSimilarity(Embedding(enrollmentFile),
                                            Embedding(file)))
         THEN "accept" ELSE "reject"

Verified(c) == call[c].guardPassed /\ call[c].outcome # "none"

\* C1: overlapping verifySpeaker calls do not interfere through
\* uploads/enrollment.wav: no call finds the file deleted or half-written by
\* another call, and every call returns the outcome it would return alone.
C1_OverlappingCallsIsolated ==
    \A c \in Calls :
        Verified(c) =>
            /\ call[c].readE \notin {"ENOENT", "decodeError", Truncated(enrollmentFile)}
            /\ call[c].outcome = SoloOutcome(call[c].file)

\* C2: a verification run while audio_saya.mp3 does not exist ends with
\* the distinct NoEnrollmentError: not 403 (a reject), not the
\* generic 500, and without an attempt at extraction.
C2_NoEnrollmentError ==
    \A c \in Calls :
        (enrollmentFile = "none" /\ Verified(c)) =>
            /\ call[c].error = "NoEnrollmentError"
            /\ call[c].status \notin {200, 403, 500}
            /\ call[c].nExtract = 0

\* A step of the verification failed: a conversion, the reading or the
\* inference of an extraction, or the scoring (no number came out).
StepFailed(c) ==
    \/ call[c].convE = "failed" \/ call[c].convV = "failed"
    \/ call[c].readE \in ReadErrors \/ call[c].readV \in ReadErrors
    \/ InferenceFails(call[c].readE) \/ InferenceFails(call[c].readV)
    \/ call[c].score.kind = "NaN"

\* C8: a verification in which conversion, extraction or scoring failed
\* reaches the caller as a failure, answered 500 and never 403 or 200, and
\* each of the three steps ran at most once.
C8_FailuresPropagate ==
    \A c \in Calls :
        /\ call[c].nConv <= 1 /\ call[c].nExtract <= 1 /\ call[c].nScore <= 1
        /\ (Verified(c) /\ StepFailed(c)) =>
              (call[c].outcome = "error" /\ call[c].status = 500)

\* C9: two verifications of the same probe against the same enrollment end
\* with the same score and the same decision, whatever ran beside them.
C9_SameInputsSameResult ==
    \A c, d \in Calls :
        (Verified(c) /\ Verified(d) /\ call[c].file = call[d].file) =>
            /\ call[c].outcome = call[d].outcome
            /\ call[c].score = call[d].score

\* C10: verifierProcessor and verifierModel are each assigned at most once,
\* the model only after the processor, and a verification passes the guard
\* and invokes them only when both are loaded, whenever its request arrives.
C10_LoadedOnceBeforeUse ==
    /\ assigns.processor <= 1 /\ assigns.model <= 1
    /\ verifierModel = "loaded" => verifierProcessor = "loaded"
    /\ \A c \in Calls :
          /\ call[c].guardPassed =>
                (verifierProcessor = "loaded" /\ verifierModel = "loaded")
          /\ call[c].invoked => call[c].invokedLoaded

\* A request that arrived during the load was refused by the guard, and a
\* later one ran its extraction on the loaded model.
C10_Witness ==
    \E c, d \in Calls :
        /\ call[c].sel = "personalized" /\ call[c].file # "none"
        /\ ~call[c].guardPassed /\ call[c].status = 403
        /\ call[d].invoked /\ call[d].invokedLoaded /\ call[d].outcome = "accept"

\* C5: the decision is accept exactly when the score is strictly above the
\* threshold, 0.69 for the server and 0.70 for the tool; NaN is no score
\* above anything.
C5_AcceptIffStrictlyAbove ==
    scorerPc = "decided" =>
        LET s == similarity
            above(tt) == s.kind = "num" /\ s.dot > 0
                         /\ 10000 * s.dot * s.dot > tt * s.aa * s.bb
        IN  /\ serverAccepts <=> above(4761)
            /\ toolIsMe <=> above(4900)

\* A score of exactly 0.69 was decided: the server rejects it.
C5_Witness ==
    /\ scorerPc = "decided"
    /\ similarity = Num(69, 1, 10000)
    /\ ~serverAccepts

\* C6: for voiceprints of different lengths the scorer signals
\* DimensionMismatchError and returns no score.
C6_LengthMismatchSignalled ==
    (scorerPc # "input" /\ Len(vecA) # Len(vecB)) =>
        similarity.kind = "DimensionMismatchError"

\* C7: for a voiceprint of zero magnitude the scorer signals
\* DegenerateVectorError, no NaN is reported as the similarity, and the
\* decision is never accept.
C7_ZeroMagnitudeSignalled ==
    (scorerPc # "input" /\ Len(vecA) = Len(vecB)
        /\ (SumSq(vecA, Len(vecA)) = 0 \/ SumSq(vecB, Len(vecB)) = 0)) =>
        /\ similarity.kind = "DegenerateVectorError"
        /\ scorerPc = "decided" => (~serverAccepts /\ ~toolIsMe)

\* C3: an enrollment upload the server has answered was accepted, and the
\* active enrollment (audio_saya.mp3, which every verification converts) is
\* the uploaded recording.
C3_EnrollReplacesRecord ==
    lastEnroll.status # 0 =>
        /\ lastEnroll.status = 200
        /\ enrollmentFile = lastEnroll.audio
        /\ enrollmentStatus # "Error"

\* C4: once a verification of the interactive tool has finished, by its
\* report or by an error, neither enrollment.wav nor verification.wav is
\* left on disk.
C4_StagingFilesRemoved ==
    toolPc \in {"done", "failed"} =>
        (toolEnrollWav = "absent" /\ toolVerifyWav = "absent")

\* The tier of the fixed bands: above 0.80 very high, else above 0.70 high,
\* else above 0.60 moderate, else above 0.50 low, else very low.
BandTier(s) ==
    LET above(k) == \/ s.kind = "inf" /\ s.dot > 0
                    \/ s.kind = "num" /\ s.dot > 0
                          /\ 10000 * s.dot * s.dot > k * k * s.aa * s.bb
    IN  IF above(80) THEN "SANGAT TINGGI"
        ELSE IF above(70) THEN "TINGGI"
        ELSE IF above(60) THEN "SEDANG"
        ELSE IF above(50) THEN "RENDAH"
        ELSE "SANGAT RENDAH"

\* C11: the confidence level reported with a verification result is the
\* tier of the fixed bands (0.80 / 0.70 / 0.60 / 0.50, each boundary
\* exclusive), five tiers in all.
C11_ConfidenceFollowsBands ==
    toolPc = "done" => confidence = BandTier(toolSimilarity)

\* C12: a probe shorter than 3 seconds never ends as an ordinary result:
\* the server's verification of one ends in an error, never in an accept or
\* a reject (no result of the server carries a low-confidence flag), and the
\* tool never records for less than 3 seconds.
C12_ShortProbeNotOrdinary ==
    /\ \A c \in Calls :
          (Verified(c) /\ ProbeSeconds(call[c].file) < 3) =>
              call[c].outcome = "error"
    /\ toolPc \in {"recording", "loading", "done"} => durasiRekam >= 3

\* C13: a personalized request whose verification returned false is
\* answered once, with 403, and nothing of the pipeline runs for it
\* (no transcription, no summary, no synthesis; neither latest path is set
\* by it); a request not personalized never calls verifySpeaker and goes to
\* the transcription. No request is answered twice.
C13_RejectStopsHandler ==
    \A c \in Calls :
        /\ call[c].responses <= 1
        /\ (call[c].sel = "personalized" /\ call[c].outcome = "reject") =>
              /\ call[c].status = 403 /\ call[c].responses = 1
              /\ call[c].pc = "done"
              /\ call[c].nTranscribe = 0 /\ call[c].nSummarize = 0
              /\ call[c].nSpeak = 0
              /\ latest_summary_audio_path # c
              /\ latest_transcription_audio_path # c
        /\ (call[c].sel # "personalized" /\ call[c].file # "none") =>
              (call[c].nVerify = 0 /\ call[c].nTranscribe = 1)

\* A verification returned false and was answered 403 while another
\* request, not personalized, went through to its 200 and set both paths.
C13_Witness ==
    \E c, d \in Calls :
        /\ call[c].guardPassed /\ call[c].outcome = "reject"
        /\ call[c].status = 403
        /\ call[d].sel = "standard" /\ call[d].status = 200
        /\ latest_summary_audio_path = d
        /\ latest_transcription_audio_path = d

\* C14: a request with a file has the deletion of its upload requested
\* exactly once by the time it is answered 200, 403 or 500, and never while
\* the verification's ffmpeg or the transcription is still using the file;
\* a request without a file is answered 400 and requests no deletion.
C14_UploadDeletedOnceAfterUse ==
    \A c \in Calls :
        /\ call[c].tempUnlinks <= 1
        /\ call[c].status \in {200, 403, 500} => call[c].tempUnlinks = 1
        /\ call[c].status = 400 => call[c].tempUnlinks = 0
        /\ call[c].tempUnlinks = 1 =>
              (call[c].convV # "spawned" /\ call[c].pc # "transcribing")

\* C15: the two GETs a client makes after its request was answered 200
\* return the audio synthesized for that request (or 404 when there is
\* none), whatever other requests ran beside it.
C15_ClientGetsItsOwnAudio ==
    \A c \in Calls :
        /\ call[c].gotSummary \in {0, -1, c}
        /\ call[c].gotTranscription \in {0, -1, c}

\* C16: every progress bar recordAudio draws is at most 100%: the timer's
\* count never passes the requested duration, both bar widths are between 0
\* and 20 and sum to 20, and the timer runs only while the recording does.
C16_ProgressAtMostFull ==
    /\ elapsed <= durasiRekam
    /\ bars \in 0..20 /\ empty \in 0..20 /\ bars + empty = 20
    /\ intervalOn => toolPc = "recording"

\* C17: at most one main MediaRecorder is recording at a time, isRecording
\* is true whenever one is, stop() is only called on a recorder that is
\* recording, and a recording that has ended was uploaded exactly once, with
\* its own chunks only.
C17_OneMainRecorder ==
    /\ Cardinality({r \in Recorders : mainRecorders[r].state = "recording"}) <= 1
    /\ (\E r \in Recorders : mainRecorders[r].state = "recording") => isRecording
    /\ ~recordStopOnInactive
    /\ \A r \in Recorders :
          /\ mainRecorders[r].uploads <= 1
          /\ mainRecorders[r].state = "stopped" =>
                (mainRecorders[r].uploads = 1 /\ mainRecorders[r].sent = <<r>>)

====
